---- MODULE Spec2Model ----
(***************************************************************************)
(* Model of the timetable relay server (kwen1510/tt-ai).                   *)
(*                                                                         *)
(* Text is modelled as a sequence of one-character strings, so trimming,   *)
(* lower-casing, the H:MM pattern and Number() are computed character by   *)
(* character.  Literal fragments the program only emits (never parses)     *)
(* are kept as single atoms of an output line.                             *)
(***************************************************************************)
EXTENDS Integers, Sequences, FiniteSets, TLC

VARIABLES
    \* coalesceSlots: the day's rows, the sorted list, the accumulators, the
    \* number of rows scanned, the returned merged slots, the position
    slots, normalized, merged, scanIdx, result, cpc,
    \* the server: which variant of the server file runs, whether
    \* APPS_SCRIPT_EXEC is set, the requests, the files under uploads/, the
    \* completion provider that is set up, the /summarize requests
    variant, configured, reqs, disk, provider, sums,
    \* formatFullTimetable: its argument, the day groups, the text, the position
    ftInput, ftGrouped, ftOutput, ftpc,
    \* formatClarifyMessage: its arguments, the text, the position
    clInput, clOutput, clpc

coalesceVars == <<slots, normalized, merged, scanIdx, result, cpc>>

serverVars == <<variant, configured, reqs, disk, provider, sums>>

formatVars == <<ftInput, ftGrouped, ftOutput, ftpc>>

clarifyVars == <<clInput, clOutput, clpc>>

vars == <<coalesceVars, serverVars, formatVars, clarifyVars>>

----------------------------------------------------------------------------
(* Bounds of the model *)

MaxSlots == 3

\* Requests in flight at once.
MaxReq == 2

\* /summarize requests in flight at once.
MaxSum == 1

\* Entries of clarify.candidates.
MaxCandidates == 2

\* Entries of timetable.rows and of timetable.grouped.
MaxDays == 3

----------------------------------------------------------------------------
(* Characters and text *)

Digits == {"0", "1", "2", "3", "4", "5", "6", "7", "8", "9"}

DigitVal(c) ==
    CASE c = "0" -> 0 [] c = "1" -> 1 [] c = "2" -> 2 [] c = "3" -> 3
      [] c = "4" -> 4 [] c = "5" -> 5 [] c = "6" -> 6 [] c = "7" -> 7
      [] c = "8" -> 8 [] c = "9" -> 9

UpperChars == <<"A", "B", "C", "D", "E", "F", "G", "H", "I", "J", "K", "L", "M",
                "N", "O", "P", "Q", "R", "S", "T", "U", "V", "W", "X", "Y", "Z">>

LowerChars == <<"a", "b", "c", "d", "e", "f", "g", "h", "i", "j", "k", "l", "m",
                "n", "o", "p", "q", "r", "s", "t", "u", "v", "w", "x", "y", "z">>

\* The value JavaScript's NaN stands for: no text of the model converts to a
\* negative number, so -1 is free to mark "not a number".
NaN == 0 - 1

IsNaN(n) == n = NaN

\* Number.isFinite on the numbers of the model: everything but NaN.
IsFinite(n) == n # NaN

\* One character of String.prototype.toLowerCase.
LowerOf ==
    [c \in {UpperChars[i] : i \in 1..Len(UpperChars)} |->
        LowerChars[CHOOSE i \in 1..Len(UpperChars) : UpperChars[i] = c]]

LowerChar(c) == IF c \in DOMAIN LowerOf THEN LowerOf[c] ELSE c

\* String.prototype.toLowerCase.
ToLowerCase(s) == [i \in 1..Len(s) |-> LowerChar(s[i])]

\* String.prototype.trim: drops the leading and the trailing blanks.
RECURSIVE TrimLeft(_)
TrimLeft(s) ==
    IF s # <<>> /\ Head(s) = " " THEN TrimLeft(Tail(s)) ELSE s

RECURSIVE TrimRight(_)
TrimRight(s) ==
    IF s # <<>> /\ s[Len(s)] = " " THEN TrimRight(SubSeq(s, 1, Len(s) - 1)) ELSE s

Trim(s) == TrimRight(TrimLeft(s))

AllDigits(s) == \A i \in 1..Len(s) : s[i] \in Digits

\* The value of a decimal numeral (0 for the empty numeral).
RECURSIVE DecimalValue(_)
DecimalValue(s) ==
    IF s = <<>> THEN 0
    ELSE 10 * DecimalValue(SubSeq(s, 1, Len(s) - 1)) + DigitVal(s[Len(s)])

\* JavaScript's Number(text) on blanks, digits and letters: blanks around the
\* numeral are ignored, the empty text is 0, a digit string is its value and
\* anything holding another character is NaN.
ToNumber(s) ==
    LET t == Trim(s) IN
    IF AllDigits(t) THEN DecimalValue(t) ELSE NaN

\* The distinct elements of a sequence, each at its first place.
RECURSIVE Distinct(_)
Distinct(s) ==
    IF s = <<>> THEN <<>>
    ELSE
        LET front == Distinct(SubSeq(s, 1, Len(s) - 1)) IN
        IF \E i \in 1..Len(front) : front[i] = s[Len(s)]
        THEN front
        ELSE Append(front, s[Len(s)])

\* The raw values a row's field can hold: null/undefined, a string, a number
\* (kept as the digits String(number) prints).
Null == [t |-> "null", v |-> <<>>]

Str(s) == [t |-> "str", v |-> s]

Num(s) == [t |-> "num", v |-> s]

----------------------------------------------------------------------------
(* Slot Normalizer *)

\* /^(\d{1,2}):(\d{2})$/ and hours * 60 + minutes.
timeToMinutes(value) ==
    LET n == Len(value) IN
    IF /\ n \in {4, 5}
       /\ value[n - 2] = ":"
       /\ AllDigits(SubSeq(value, 1, n - 3))
       /\ AllDigits(SubSeq(value, n - 1, n))
    THEN DecimalValue(SubSeq(value, 1, n - 3)) * 60 + DecimalValue(SubSeq(value, n - 1, n))
    ELSE NaN

parsePeriodNumber(value) ==
    LET num == ToNumber(value) IN
    IF IsFinite(num) THEN num ELSE NaN

toTrimmed(value) ==
    IF value.t = "null" THEN <<>> ELSE Trim(value.v)

normalizeKey(value) ==
    IF value # <<>> THEN ToLowerCase(value) ELSE <<>>

\* The null a non-object row normalizes to.
NoSlot == [none |-> TRUE]

normalizeSlot(raw) ==
    IF ~raw.obj THEN NoSlot
    ELSE
        LET subject   == toTrimmed(raw.Subject)
            className == toTrimmed(raw.Class)
            room      == toTrimmed(raw.Room)
            period    == toTrimmed(raw.Period)
            start     == toTrimmed(raw.Start)
            end       == toTrimmed(raw.End)
        IN  [Period |-> period, Start |-> start, End |-> end,
             Subject |-> subject, Class |-> className, Room |-> room,
             _subjectKey |-> normalizeKey(subject),
             _classKey |-> normalizeKey(className),
             _roomKey |-> normalizeKey(room)]

----------------------------------------------------------------------------
(* Array.prototype.sort *)

\* Node's Array.prototype.sort for arrays shorter than 64 elements: the leading
\* run is found (and reversed when strictly descending), then the rest is put
\* in place by binary insertion.  The array is a sequence of the indices of
\* the original elements and c[i][j] is the comparator's result on the
\* original elements i and j.
RECURSIVE RunLength(_, _, _, _)
RunLength(c, a, idx, desc) ==
    IF idx > Len(a) THEN idx - 1
    ELSE
        LET order == c[a[idx]][a[idx - 1]] IN
        IF (desc /\ order >= 0) \/ (~desc /\ order < 0)
        THEN idx - 1
        ELSE RunLength(c, a, idx + 1, desc)

Reverse(a) == [i \in 1..Len(a) |-> a[Len(a) + 1 - i]]

RECURSIVE BinarySearch(_, _, _, _, _)
BinarySearch(c, a, pivot, left, right) ==
    IF left >= right THEN left
    ELSE
        LET mid == left + ((right - left) \div 2) IN
        IF c[pivot][a[mid]] < 0
        THEN BinarySearch(c, a, pivot, left, mid)
        ELSE BinarySearch(c, a, pivot, mid + 1, right)

RECURSIVE BinaryInsertionSort(_, _, _)
BinaryInsertionSort(c, a, start) ==
    IF start > Len(a) THEN a
    ELSE
        LET pivot == a[start]
            pos   == BinarySearch(c, a, pivot, 1, start)
            next  == SubSeq(a, 1, pos - 1) \o <<pivot>> \o SubSeq(a, pos, start - 1)
                       \o SubSeq(a, start + 1, Len(a))
        IN  BinaryInsertionSort(c, next, start + 1)

\* The permutation sort() applies to an array of n elements under comparator c.
ArraySort(c, n) ==
    LET a == [i \in 1..n |-> i] IN
    IF n < 2 THEN a
    ELSE
        LET desc == c[a[2]][a[1]] < 0
            run  == RunLength(c, a, 3, desc)
            made == IF desc THEN Reverse(SubSeq(a, 1, run)) \o SubSeq(a, run + 1, n) ELSE a
        IN  BinaryInsertionSort(c, made, run + 1)

----------------------------------------------------------------------------
(* Slot Coalescer *)

\* The comparator of the sort in coalesceSlots.
compareSlots(a, b) ==
    LET aMinutes == timeToMinutes(a.Start)
        bMinutes == timeToMinutes(b.Start)
        aPeriod  == parsePeriodNumber(a.Period)
        bPeriod  == parsePeriodNumber(b.Period)
    IN  IF ~IsNaN(aMinutes) /\ ~IsNaN(bMinutes) /\ aMinutes # bMinutes
        THEN aMinutes - bMinutes
        ELSE IF IsFinite(aPeriod) /\ IsFinite(bPeriod) /\ aPeriod # bPeriod
             THEN aPeriod - bPeriod
             ELSE 0

\* slots.map(normalizeSlot).filter(slot !== null)
normalizeAll(raws) ==
    LET kept(x) == x # NoSlot IN
    SelectSeq([i \in 1..Len(raws) |-> normalizeSlot(raws[i])], kept)

\* The sort left out: the rows stay in received order.
sortSlotsNone(list) == list

\* ... .sort(comparator)
sortSlots(list) ==
    LET n    == Len(list)
        c    == [i \in 1..n |-> [j \in 1..n |-> compareSlots(list[i], list[j])]]
        perm == ArraySort(c, n)
    IN  [k \in 1..n |-> list[perm[k]]]

sameSlotGroupNoRoom(current, next) ==
    /\ current._subjectKey = next._subjectKey
    /\ current._classKey = next._classKey

sameSlotGroup(current, next) ==
    /\ current._subjectKey = next._subjectKey
    /\ current._classKey = next._classKey
    /\ current._roomKey = next._roomKey

slotsTouch(current, next) ==
    LET lastEnd       == timeToMinutes(current.End)
        nextStart     == timeToMinutes(next.Start)
        lastPeriodRaw == current.periodsRaw[Len(current.periodsRaw)]
        lastPeriodNum == parsePeriodNumber(lastPeriodRaw)
        nextPeriodNum == parsePeriodNumber(next.Period)
    IN  IF ~IsNaN(lastEnd) /\ ~IsNaN(nextStart) /\ nextStart = lastEnd
        THEN TRUE
        ELSE IF IsFinite(lastPeriodNum) /\ IsFinite(nextPeriodNum)
             THEN nextPeriodNum = lastPeriodNum + 1
             ELSE FALSE

\* The iteration without last.periodsRaw.push(periodLabel): a merged slot
\* leaves no label in its accumulator.
scanSlotNoPush(acc, slot) ==
    IF /\ acc # <<>>
       /\ sameSlotGroup(acc[Len(acc)], slot)
       /\ slotsTouch(acc[Len(acc)], slot)
    THEN
        LET last == acc[Len(acc)] IN
        [acc EXCEPT ![Len(acc)] =
            [last EXCEPT
                !.End = IF slot.End # <<>> THEN slot.End ELSE last.End,
                !.Start = IF last.Start = <<>> /\ slot.Start # <<>>
                          THEN slot.Start ELSE last.Start]]
    ELSE
        Append(acc,
            [periodsRaw |-> <<slot.Period>>,
             Start |-> slot.Start, End |-> slot.End,
             Subject |-> slot.Subject, Class |-> slot.Class, Room |-> slot.Room,
             _subjectKey |-> slot._subjectKey,
             _classKey |-> slot._classKey,
             _roomKey |-> slot._roomKey])

\* One iteration of normalized.forEach: merge the slot into the last
\* accumulator or open a new accumulator.
scanSlot(acc, slot) ==
    IF /\ acc # <<>>
       /\ sameSlotGroup(acc[Len(acc)], slot)
       /\ slotsTouch(acc[Len(acc)], slot)
    THEN
        LET last == acc[Len(acc)] IN
        [acc EXCEPT ![Len(acc)] =
            [last EXCEPT
                !.End = IF slot.End # <<>> THEN slot.End ELSE last.End,
                !.Start = IF last.Start = <<>> /\ slot.Start # <<>>
                          THEN slot.Start ELSE last.Start,
                !.periodsRaw = Append(last.periodsRaw, slot.Period)]]
    ELSE
        Append(acc,
            [periodsRaw |-> <<slot.Period>>,
             Start |-> slot.Start, End |-> slot.End,
             Subject |-> slot.Subject, Class |-> slot.Class, Room |-> slot.Room,
             _subjectKey |-> slot._subjectKey,
             _classKey |-> slot._classKey,
             _roomKey |-> slot._roomKey])

\* The accumulators after the first k slots of the sorted list.
RECURSIVE scanPrefix(_, _)
scanPrefix(list, k) ==
    IF k = 0 THEN <<>> ELSE scanSlot(scanPrefix(list, k - 1), list[k])

\* The character U+2014 the program prints for an empty cell.
EmDash == <<"EM DASH">>

JoinWith(sep, parts) ==
    LET RECURSIVE join(_)
        join(k) == IF k = 1 THEN parts[1] ELSE join(k - 1) \o sep \o parts[k]
    IN  IF parts = <<>> THEN <<>> ELSE join(Len(parts))

formatPeriodLabel(periodsRaw) ==
    LET nonEmpty(p) == p # <<>>
        filtered == SelectSeq([i \in 1..Len(periodsRaw) |-> Trim(periodsRaw[i])], nonEmpty)
        numbers  == [i \in 1..Len(filtered) |-> parsePeriodNumber(filtered[i])]
        sequential ==
            \A idx \in 1..Len(numbers) :
                IsFinite(numbers[idx]) /\ (idx = 1 \/ numbers[idx] = numbers[idx - 1] + 1)
    IN  IF filtered = <<>> THEN EmDash
        ELSE IF Len(filtered) = 1 THEN filtered[1]
        ELSE IF sequential THEN filtered[1] \o <<"-">> \o filtered[Len(filtered)]
        ELSE JoinWith(<<",", " ">>, filtered)

\* merged.map(item => ({Period: formatPeriodLabel(item.periodsRaw), ...}))
toMergedSlot(item) ==
    [Period |-> formatPeriodLabel(item.periodsRaw),
     Start |-> item.Start, End |-> item.End,
     Subject |-> item.Subject, Class |-> item.Class, Room |-> item.Room]

\* coalesceSlots as one function (the formatter calls it per day).
coalesceSlots(raws) ==
    IF raws = <<>> THEN <<>>
    ELSE
        LET list == sortSlots(normalizeAll(raws))
            acc  == scanPrefix(list, Len(list))
        IN  [i \in 1..Len(acc) |-> toMergedSlot(acc[i])]

----------------------------------------------------------------------------
(* The rows a day is drawn from *)

T0900 == <<"9", ":", "0", "0">>

T0950 == <<"9", ":", "5", "0">>

T1040 == <<"1", "0", ":", "4", "0">>

T1130 == <<"1", "1", ":", "3", "0">>

Math == <<"M", "a", "t", "h">>

Class10A == <<"1", "0", "A">>

Room101 == <<"1", "0", "1">>

Room102 == <<"1", "0", "2">>

RawSlot(period, start, end, subject, room) ==
    [obj |-> TRUE, Period |-> period, Start |-> start, End |-> end,
     Subject |-> subject, Class |-> Str(Class10A), Room |-> room]

\* A row that is not an object (null, a number, a string).
NonObject ==
    [obj |-> FALSE, Period |-> Null, Start |-> Null, End |-> Null,
     Subject |-> Null, Class |-> Null, Room |-> Null]

SlotPool ==
    { \* three lessons chained by their times, periods 1, 2, 3
      RawSlot(Str(<<"1">>), Str(T0900), Str(T0950), Str(Math), Str(Room101)),
      RawSlot(Str(<<"2">>), Str(T0950), Str(T1040), Str(Math), Str(Room101)),
      RawSlot(Str(<<"3">>), Str(T1040), Str(T1130), Str(Math), Str(Room101)),
      \* the same periods without times
      RawSlot(Str(<<"1">>), Str(<<>>), Str(<<>>), Str(Math), Str(Room101)),
      RawSlot(Str(<<"2">>), Str(<<>>), Str(<<>>), Str(Math), Str(Room101)),
      RawSlot(Str(<<"3">>), Str(<<>>), Str(<<>>), Str(Math), Str(Room101)),
      \* no period label, no times
      RawSlot(Null, Null, Null, Str(Math), Str(Room101)),
      \* a label that is not a numeral
      RawSlot(Str(<<"A">>), Str(T0900), Str(T0950), Str(Math), Str(Room101)),
      RawSlot(Str(<<"A">>), Str(T0950), Str(T1040), Str(Math), Str(Room101)),
      \* period 1 again, in the second time window
      RawSlot(Str(<<"1">>), Str(T0950), Str(T1040), Str(Math), Str(Room101)),
      \* a numeric period, padded fields, a leading zero, another letter case
      RawSlot(Num(<<"2">>), Str(<<" ", "0", "9", ":", "5", "0", " ">>), Str(T1040),
              Str(<<" ", "m", "a", "T", "H">>), Num(Room101)),
      \* another room
      RawSlot(Str(<<"2">>), Str(T0950), Str(T1040), Str(Math), Str(Room102)),
      RawSlot(Null, Str(T0900), Str(T0950), Str(Math), Str(Room102)),
      \* a malformed start time
      RawSlot(Str(<<"1">>), Str(<<"9", ":", "5">>), Str(T0950), Str(Math), Str(Room101)),
      \* a row whose End is earlier than its Start
      RawSlot(Str(<<"1">>), Str(T1040), Str(T0950), Str(Math), Str(Room101)),
      NonObject }

SlotLists == UNION { [1..n -> SlotPool] : n \in 0..MaxSlots }

----------------------------------------------------------------------------
(* coalesceSlots, step by step *)

\* A call of coalesceSlots with a list of rows; the state of the other
\* components is not used by this specification and stays as it is here.
CoalesceInit ==
    /\ slots \in SlotLists
    /\ normalized = <<>>
    /\ merged = <<>>
    /\ scanIdx = 0
    /\ result = <<>>
    /\ cpc = "start"
    /\ variant = "none"
    /\ configured = FALSE
    /\ reqs = <<>>
    /\ disk = {}
    /\ provider = "none"
    /\ sums = <<>>
    /\ ftInput = <<>>
    /\ ftGrouped = <<>>
    /\ ftOutput = <<>>
    /\ ftpc = "idle"
    /\ clInput = <<>>
    /\ clOutput = <<>>
    /\ clpc = "idle"

\* if (!slots.length) return [];
CoalesceEmpty ==
    /\ cpc = "start"
    /\ slots = <<>>
    /\ cpc' = "done"
    /\ result' = <<>>
    /\ UNCHANGED <<slots, normalized, merged, scanIdx>>
    /\ UNCHANGED <<serverVars, formatVars, clarifyVars>>

\* const normalized = slots.map(...).filter(...).sort(...); const merged = [];
CoalesceSort ==
    /\ cpc = "start"
    /\ slots # <<>>
    /\ normalized' = sortSlots(normalizeAll(slots))
    /\ merged' = <<>>
    /\ scanIdx' = 0
    /\ cpc' = "scan"
    /\ UNCHANGED <<slots, result>>
    /\ UNCHANGED <<serverVars, formatVars, clarifyVars>>

\* one iteration of normalized.forEach
CoalesceScan ==
    /\ cpc = "scan"
    /\ scanIdx < Len(normalized)
    /\ merged' = scanSlot(merged, normalized[scanIdx + 1])
    /\ scanIdx' = scanIdx + 1
    /\ UNCHANGED <<slots, normalized, result, cpc>>
    /\ UNCHANGED <<serverVars, formatVars, clarifyVars>>

\* return merged.map(...)
CoalesceReturn ==
    /\ cpc = "scan"
    /\ scanIdx = Len(normalized)
    /\ result' = [i \in 1..Len(merged) |-> toMergedSlot(merged[i])]
    /\ cpc' = "done"
    /\ UNCHANGED <<slots, normalized, merged, scanIdx>>
    /\ UNCHANGED <<serverVars, formatVars, clarifyVars>>

CoalesceNext ==
    \/ CoalesceEmpty
    \/ CoalesceSort
    \/ CoalesceScan
    \/ CoalesceReturn

SpecCoalesce ==
    CoalesceInit /\ [][CoalesceNext]_vars

----------------------------------------------------------------------------
(* Properties of the coalescer *)

\* The rows of the sorted list that accumulator k was built from: the scan
\* appends one period label per row, in order.
RECURSIVE AccOffset(_)
AccOffset(k) ==
    IF k = 1 THEN 0 ELSE AccOffset(k - 1) + Len(merged[k - 1].periodsRaw)

Constituents(k) ==
    SubSeq(normalized, AccOffset(k) + 1, AccOffset(k) + Len(merged[k].periodsRaw))

\* A text that is an integer numeral: one digit or more, nothing else.
IsIntegerNumeral(s) == s # <<>> /\ AllDigits(s)

\* A time of the form H:MM or HH:MM.
IsClockTime(s) ==
    /\ Len(s) \in {4, 5}
    /\ s[Len(s) - 2] = ":"
    /\ \A i \in 1..Len(s) : i # Len(s) - 2 => s[i] \in Digits

ClockMinutes(s) ==
    60 * DecimalValue(SubSeq(s, 1, Len(s) - 3)) + DecimalValue(SubSeq(s, Len(s) - 1, Len(s)))

\* Subject, Class and Room of a slot, trimmed and lower-cased.
GroupOf(slot) ==
    <<ToLowerCase(Trim(slot.Subject)), ToLowerCase(Trim(slot.Class)),
      ToLowerCase(Trim(slot.Room))>>

\* C3: every merged slot has the Start, Subject, Class and Room of its first
\* constituent and the End of its last constituent.
C3_FirstAndLastConstituent ==
    cpc = "done" =>
        \A k \in 1..Len(result) :
            LET cs == Constituents(k) IN
            /\ result[k].Start = cs[1].Start
            /\ result[k].Subject = cs[1].Subject
            /\ result[k].Class = cs[1].Class
            /\ result[k].Room = cs[1].Room
            /\ result[k].End = cs[Len(cs)].End

\* The touching rule as the specification words it.
TouchAsSpecified(accEnd, lastLabel, next) ==
    \/ /\ IsClockTime(accEnd)
       /\ IsClockTime(next.Start)
       /\ ClockMinutes(accEnd) = ClockMinutes(next.Start)
    \/ /\ IsIntegerNumeral(lastLabel)
       /\ IsIntegerNumeral(next.Period)
       /\ DecimalValue(next.Period) = DecimalValue(lastLabel) + 1

\* C4: in a scan step on a slot of the accumulator's group, the slot is merged
\* exactly when it touches the accumulator: equal parseable times, or integer
\* period labels that differ by one; otherwise it opens a new merged slot.
C4_TouchIffTimesOrPeriods ==
    [][ (CoalesceScan /\ merged # <<>>) =>
          LET last == merged[Len(merged)]
              next == normalized[scanIdx + 1]
          IN  GroupOf(last) = GroupOf(next) =>
                ( (Len(merged') = Len(merged))
                  <=> TouchAsSpecified(last.End, last.periodsRaw[Len(last.periodsRaw)], next) )
      ]_vars

\* The label the specification gives a list of period labels.
LabelAsSpecified(labels) ==
    LET consecutive ==
            \A i \in 1..Len(labels) :
                /\ IsIntegerNumeral(labels[i])
                /\ i > 1 => DecimalValue(labels[i]) = DecimalValue(labels[i - 1]) + 1
    IN  IF labels = <<>> THEN EmDash
        ELSE IF Len(labels) = 1 THEN labels[1]
        ELSE IF consecutive THEN labels[1] \o <<"-">> \o labels[Len(labels)]
        ELSE JoinWith(<<",", " ">>, Distinct(labels))

\* The period labels of a merged slot's constituents, the empty ones left out.
ConstituentLabels(k) ==
    LET cs == Constituents(k)
        nonEmpty(p) == p # <<>>
    IN  SelectSeq([i \in 1..Len(cs) |-> cs[i].Period], nonEmpty)

\* C5: the Period label of a merged slot is a dash for no label, the label for
\* one, "first-last" for consecutive integers and otherwise the distinct
\* labels joined with ", ".
C5_PeriodLabel ==
    cpc = "done" =>
        \A k \in 1..Len(result) :
            result[k].Period = LabelAsSpecified(ConstituentLabels(k))

\* C6: all constituents of an accumulator have the same Subject, Class and
\* Room up to blanks and letter case (so rows of different rooms are never
\* merged), and a slot that touches the accumulator before it and has its
\* group up to letter case is merged into it.
C6_MergeOnlyWithinGroup ==
    /\ \A k \in 1..Len(merged) :
          LET rows   == Constituents(k)
              groups == [i \in 1..Len(rows) |-> GroupOf(rows[i])] \o <<>>
          IN  \A i, j \in 1..Len(groups) : groups[i] = groups[j]
    /\ \A k \in 1..(Len(merged) - 1) :
          LET next == Constituents(k + 1)[1] IN
          GroupOf(merged[k]) = GroupOf(next) => ~slotsTouch(merged[k], next)

\* C6's case: rows that differ in letter case were merged, and a row with the
\* times and period of a merged row but another room has a row of its own.
C6_Witness ==
    /\ cpc = "done"
    /\ Len(result) = 2
    /\ \E i, j \in 1..Len(Constituents(1)) :
          Constituents(1)[i].Subject # Constituents(1)[j].Subject
    /\ \E i \in 1..Len(Constituents(1)) :
          LET a == Constituents(1)[i]
              b == Constituents(2)[1]
          IN  /\ a.Start # <<>>
              /\ timeToMinutes(a.Start) = timeToMinutes(b.Start)
              /\ a.End = b.End
              /\ a.Period = b.Period
              /\ a.Room # b.Room

\* The rows of the day as the normalizer reads them, in received order.
Received == [i \in 1..Len(slots) |-> normalizeSlot(slots[i])]

\* The place of the row with period number n among the received rows.
RowOfPeriod(n) ==
    CHOOSE i \in 1..Len(Received) : DecimalValue(Received[i].Period) = n

\* A day that is one chain: two or more rows of one group whose period labels
\* are the integers p..q, one row each, and either every row runs from its
\* Start to a later-or-equal End and ends when the row of the next period
\* starts, or no row has a Start or an End.
IsChain ==
    /\ Len(slots) >= 2
    /\ \A i \in 1..Len(slots) : slots[i].obj
    /\ \A i, j \in 1..Len(Received) :
          /\ GroupOf(Received[i]) = GroupOf(Received[j])
          /\ IsIntegerNumeral(Received[i].Period)
          /\ i # j => DecimalValue(Received[i].Period) # DecimalValue(Received[j].Period)
    /\ LET nums == { DecimalValue(Received[i].Period) : i \in 1..Len(Received) }
           p    == CHOOSE n \in nums : \A m \in nums : n <= m
       IN  /\ nums = p..(p + Len(Received) - 1)
           /\ \/ \A i \in 1..Len(Received) :
                    Received[i].Start = <<>> /\ Received[i].End = <<>>
              \/ /\ \A i \in 1..Len(Received) :
                       /\ IsClockTime(Received[i].Start)
                       /\ IsClockTime(Received[i].End)
                       /\ ClockMinutes(Received[i].Start) <= ClockMinutes(Received[i].End)
                 /\ \A n \in p..(p + Len(Received) - 2) :
                       ClockMinutes(Received[RowOfPeriod(n)].End)
                           = ClockMinutes(Received[RowOfPeriod(n + 1)].Start)

C7_WitnessNoTimes ==
    /\ cpc = "done"
    /\ IsChain
    /\ Received[1].Start = <<>>
    /\ DecimalValue(Received[1].Period) > DecimalValue(Received[2].Period)

\* Row a was received before row b.
ReceivedBefore(a, b) ==
    \E i, j \in 1..Len(Received) : i < j /\ Received[i] = a /\ Received[j] = b

\* C8: when every Start is parseable the merged slots come out by
\* non-decreasing start time; those with equal start times come out by
\* ascending period number when both periods are numerals, and otherwise in
\* the order their rows were received.
C8_OutputInSortOrder ==
    (cpc = "done" /\ \A i \in 1..Len(normalized) : IsClockTime(normalized[i].Start)) =>
        \A k, l \in 1..Len(result) :
            k < l =>
                LET a == Constituents(k)[1]
                    b == Constituents(l)[1]
                IN  /\ ClockMinutes(a.Start) <= ClockMinutes(b.Start)
                    /\ ClockMinutes(a.Start) = ClockMinutes(b.Start) =>
                          IF IsIntegerNumeral(a.Period) /\ IsIntegerNumeral(b.Period)
                          THEN DecimalValue(a.Period) <= DecimalValue(b.Period)
                          ELSE a = b \/ ReceivedBefore(a, b)

----------------------------------------------------------------------------
(* The server: /proxy and /whisper *)

\* The four server files of the repository.
Variants == {"server.js", "part_000", "part_001", "part_002"}

\* The variants whose /whisper renames the upload and removes it in finally.
RenamingVariants == {"server.js", "part_000"}

Requests == 1..MaxReq

MimeTypes == {"audio/ogg", "audio/webm", "video/mp4", "audio/x-m4a", ""}

\* mt.includes(part)
MimeIncludes(mt, part) ==
    \/ mt = "audio/ogg" /\ part = "ogg"
    \/ mt = "audio/webm" /\ part = "webm"
    \/ mt = "video/mp4" /\ part = "mp4"

guessedExt(origExt, mt) ==
    IF origExt # "" THEN origExt
    ELSE IF MimeIncludes(mt, "ogg") THEN ".ogg"
    ELSE IF MimeIncludes(mt, "webm") THEN ".webm"
    ELSE IF MimeIncludes(mt, "mp4") THEN ".mp4"
    ELSE ".m4a"

\* The file multer stores the upload of request i in, and the same file
\* under the name with an extension.
UploadPath(i) == [upload |-> i, ext |-> ""]

ProperPath(i, origExt, mt) == [upload |-> i, ext |-> guessedExt(origExt, mt)]

NoRequest ==
    [kind |-> "none", pc |-> "none", question |-> FALSE, file |-> FALSE,
     origExt |-> "", mimetype |-> "", posts |-> 0, status |-> 0, error |-> ""]

ServerInit ==
    /\ variant \in Variants
    /\ configured \in BOOLEAN
    /\ reqs = [i \in Requests |-> NoRequest]
    /\ disk = {}
    /\ provider = "none"
    /\ sums = <<>>
    /\ slots = <<>>
    /\ normalized = <<>>
    /\ merged = <<>>
    /\ scanIdx = 0
    /\ result = <<>>
    /\ cpc = "idle"
    /\ ftInput = <<>>
    /\ ftGrouped = <<>>
    /\ ftOutput = <<>>
    /\ ftpc = "idle"
    /\ clInput = <<>>
    /\ clOutput = <<>>
    /\ clpc = "idle"

\* A POST /proxy arrives, with or without a question in its body.
ProxyArrive(i) ==
    /\ reqs[i].kind = "none"
    /\ \E q \in BOOLEAN :
          reqs' = [reqs EXCEPT ![i] = [NoRequest EXCEPT
                      !.kind = "proxy", !.pc = "handler", !.question = q]]
    /\ UNCHANGED <<variant, configured, disk, provider, sums>>
    /\ UNCHANGED <<coalesceVars, formatVars, clarifyVars>>

\* The error the /proxy handler rejects the request with before it calls the
\* upstream service, "" when it goes on to call it.
proxyRejection(v, hasQuestion, hasEndpoint) ==
    CASE v \in {"server.js", "part_000"} ->
            IF ~hasEndpoint THEN "Missing APPS_SCRIPT_EXEC"
            ELSE IF ~hasQuestion THEN "Missing question"
            ELSE ""
      [] v = "part_002" ->
            IF ~hasQuestion THEN "Missing question"
            ELSE IF ~hasEndpoint THEN "Missing APPS_SCRIPT_EXEC"
            ELSE ""
      [] v = "part_001" ->
            IF ~hasQuestion THEN "Missing question" ELSE ""

rejectionStatus(error) == IF error = "Missing question" THEN 400 ELSE 500

\* The handler with the `return` of the rejections left out: the response is
\* sent and the upstream call is made all the same.
ProxyHandleNoReturn(i) ==
    /\ reqs[i].kind = "proxy"
    /\ reqs[i].pc = "handler"
    /\ LET error == proxyRejection(variant, reqs[i].question, configured) IN
       reqs' = [reqs EXCEPT ![i] = [@ EXCEPT
                   !.pc = "awaiting", !.posts = @ + 1,
                   !.status = IF error = "" THEN 0 ELSE rejectionStatus(error),
                   !.error = error]]
    /\ UNCHANGED <<variant, configured, disk, provider, sums>>
    /\ UNCHANGED <<coalesceVars, formatVars, clarifyVars>>

\* The /proxy handler up to its await: the request is rejected, or
\* axios.post(APPS_SCRIPT_EXEC, payload) is called.
ProxyHandle(i) ==
    /\ reqs[i].kind = "proxy"
    /\ reqs[i].pc = "handler"
    /\ LET error == proxyRejection(variant, reqs[i].question, configured) IN
       reqs' = [reqs EXCEPT ![i] =
                   IF error # ""
                   THEN [@ EXCEPT !.pc = "done", !.status = rejectionStatus(error),
                                  !.error = error]
                   ELSE [@ EXCEPT !.pc = "awaiting", !.posts = @ + 1]]
    /\ UNCHANGED <<variant, configured, disk, provider, sums>>
    /\ UNCHANGED <<coalesceVars, formatVars, clarifyVars>>

\* The upstream call settles: res.json(r.data), or the catch block's 500.
ProxySettle(i) ==
    /\ reqs[i].kind = "proxy"
    /\ reqs[i].pc = "awaiting"
    /\ \E ok \in BOOLEAN :
          reqs' = [reqs EXCEPT ![i] = [@ EXCEPT
                      !.pc = "done",
                      !.status = IF ok THEN 200 ELSE 500,
                      !.error = IF ok THEN "" ELSE "err.message"]]
    /\ UNCHANGED <<variant, configured, disk, provider, sums>>
    /\ UNCHANGED <<coalesceVars, formatVars, clarifyVars>>

\* A POST /whisper arrives; multer stores the audio file, when there is one,
\* under uploads/.
WhisperArrive(i) ==
    /\ reqs[i].kind = "none"
    /\ \E f \in BOOLEAN, e \in {"", ".wav"}, mt \in MimeTypes :
          /\ (~f) => (e = "" /\ mt = "")
          /\ reqs' = [reqs EXCEPT ![i] = [NoRequest EXCEPT
                         !.kind = "whisper", !.pc = "handler", !.file = f,
                         !.origExt = e, !.mimetype = mt]]
          /\ disk' = IF f THEN disk \cup {UploadPath(i)} ELSE disk
    /\ UNCHANGED <<variant, configured, provider, sums>>
    /\ UNCHANGED <<coalesceVars, formatVars, clarifyVars>>

\* The /whisper handler up to its await: 400 without a file; otherwise the
\* renaming variants rename the upload and all call the transcription service.
WhisperHandle(i) ==
    /\ reqs[i].kind = "whisper"
    /\ reqs[i].pc = "handler"
    /\ IF ~reqs[i].file
       THEN /\ reqs' = [reqs EXCEPT ![i] = [@ EXCEPT
                           !.pc = "done", !.status = 400,
                           !.error = "No audio file uploaded"]]
            /\ disk' = disk
       ELSE /\ reqs' = [reqs EXCEPT ![i] = [@ EXCEPT !.pc = "awaiting", !.posts = @ + 1]]
            /\ disk' = IF variant \in RenamingVariants
                       THEN (disk \ {UploadPath(i)})
                                \cup {ProperPath(i, reqs[i].origExt, reqs[i].mimetype)}
                       ELSE disk
    /\ UNCHANGED <<variant, configured, provider, sums>>
    /\ UNCHANGED <<coalesceVars, formatVars, clarifyVars>>

\* The files left under uploads/ once the transcription call has settled with
\* the given outcome ("text", "empty" or "throw").
diskAfterWhisper(v, files, i, origExt, mt, outcome) ==
    IF v \in RenamingVariants
    THEN files \ {ProperPath(i, origExt, mt)}
    ELSE IF outcome = "throw" THEN files ELSE files \ {UploadPath(i)}

\* The transcription call settles: the response is sent and the upload is
\* removed (finally in the renaming variants, after a successful call in the
\* others).
WhisperSettle(i) ==
    /\ reqs[i].kind = "whisper"
    /\ reqs[i].pc = "awaiting"
    /\ \E outcome \in {"text", "empty", "throw"} :
          /\ reqs' = [reqs EXCEPT ![i] = [@ EXCEPT
                         !.pc = "done",
                         !.status = IF outcome = "throw" THEN 500 ELSE 200,
                         !.error = CASE outcome = "throw" -> "e.message"
                                     [] outcome = "empty" /\ variant \in RenamingVariants
                                            -> "empty_transcription"
                                     [] OTHER -> ""]]
          /\ disk' = diskAfterWhisper(variant, disk, i, reqs[i].origExt,
                                      reqs[i].mimetype, outcome)
    /\ UNCHANGED <<variant, configured, provider, sums>>
    /\ UNCHANGED <<coalesceVars, formatVars, clarifyVars>>

ServerNext ==
    \E i \in Requests :
        \/ ProxyArrive(i)
        \/ ProxyHandle(i)
        \/ ProxySettle(i)
        \/ WhisperArrive(i)
        \/ WhisperHandle(i)
        \/ WhisperSettle(i)

SpecServer ==
    ServerInit /\ [][ServerNext]_vars

\* C1: once the /whisper handler of a request that uploaded a file has
\* finished, no file of that upload is left under uploads/.
C1_UploadRemoved ==
    \A i \in Requests :
        (reqs[i].kind = "whisper" /\ reqs[i].file /\ reqs[i].pc = "done")
            => ~ \E f \in disk : f.upload = i

\* C2: a /proxy request calls the upstream service at most once, and not at
\* all when it is rejected for a missing question or a missing endpoint.
C2_AtMostOneUpstreamCall ==
    \A i \in Requests :
        reqs[i].kind = "proxy" =>
            /\ reqs[i].posts <= 1
            /\ reqs[i].error \in {"Missing question", "Missing APPS_SCRIPT_EXEC"}
                  => reqs[i].posts = 0

\* C2's case: one request was answered after one upstream call while another
\* was rejected without any.
C2_Witness ==
    \E i, j \in Requests :
        /\ reqs[i].kind = "proxy" /\ reqs[i].pc = "done" /\ reqs[i].posts = 1
        /\ reqs[j].kind = "proxy" /\ reqs[j].pc = "done" /\ reqs[j].posts = 0
        /\ reqs[j].error = "Missing question"

----------------------------------------------------------------------------
(* formatClarifyMessage *)

\* JavaScript's truthiness of a raw value: null, undefined and "" are falsy.
Truthy(value) == value.t # "null" /\ value.v # <<>>

\* `${value}` for a string or a number.
TextOf(value) == value.v

JaneSmith == <<"J", "a", "n", "e", " ", "S", "m", "i", "t", "h">>

JaneDoe == <<"J", "a", "n", "e", " ", "D", "o", "e">>

CandidateValues == {Null, Str(<<>>), Str(JaneSmith), Str(JaneDoe)}

\* A value that may be an array: its items, or not an array (null, missing).
Array(items) == [array |-> TRUE, items |-> items]

NotArray == [array |-> FALSE, items |-> <<>>]

\* clarify.candidates
CandidateLists ==
    {NotArray} \cup { Array(c) : c \in UNION { [1..n -> CandidateValues] : n \in 0..MaxCandidates } }

ClarifyInputs ==
    [candidates : CandidateLists,
     input      : {Null, Str(<<"J", "a", "n", "e">>)},
     message    : {Null, Str(<<>>), Str(<<"W", "h", "i", "c", "h", "?">>)},
     question   : {Null, Str(<<>>), Str(<<"w", "h", "e", "n">>)}]

\* The characters U+201C and U+201D around the picked name.
LeftQuote == "LEFT DOUBLE QUOTATION MARK"

RightQuote == "RIGHT DOUBLE QUOTATION MARK"

\* The lines of the returned text (the text is the lines joined by "\n").
formatClarifyMessage(clarify, question) ==
    LET candidates == IF clarify.candidates.array THEN clarify.candidates.items ELSE <<>>
        uniqueCandidates == Distinct(SelectSeq(candidates, Truthy))
        picked == IF Truthy(clarify.input) THEN TextOf(clarify.input) ELSE <<>>
        title  == IF Truthy(clarify.message) THEN TextOf(clarify.message)
                  ELSE <<"Multiple matches found.">>
        nonEmpty(line) == line # <<>>
    IN  IF uniqueCandidates = <<>>
        THEN SelectSeq(
                << <<"**">> \o title \o <<"**">>,
                   <<>>,
                   <<LeftQuote>> \o picked
                     \o <<RightQuote, " matches multiple teachers. Please provide a more specific name so I can continue.">>,
                   IF Truthy(question)
                   THEN <<"Original question: _">> \o TextOf(question) \o <<"_">>
                   ELSE <<>> >>,
                nonEmpty)
        ELSE << <<"**">> \o title \o <<"**">>,
                <<>>,
                <<LeftQuote>> \o picked
                  \o <<RightQuote, " matches multiple teachers. Please select one of the following:">>,
                <<>> >>
             \o [i \in 1..Len(uniqueCandidates) |-> <<"- ">> \o TextOf(uniqueCandidates[i])]
             \o << <<>>, <<"Reply with the full name to continue.">> >>

ClarifyInit ==
    /\ clInput \in ClarifyInputs
    /\ clOutput = <<>>
    /\ clpc = "start"
    /\ slots = <<>>
    /\ normalized = <<>>
    /\ merged = <<>>
    /\ scanIdx = 0
    /\ result = <<>>
    /\ cpc = "idle"
    /\ variant = "none"
    /\ configured = FALSE
    /\ reqs = <<>>
    /\ disk = {}
    /\ provider = "none"
    /\ sums = <<>>
    /\ ftInput = <<>>
    /\ ftGrouped = <<>>
    /\ ftOutput = <<>>
    /\ ftpc = "idle"

\* const summary = formatClarifyMessage(clarify, question)
ClarifyFormat ==
    /\ clpc = "start"
    /\ clOutput' = formatClarifyMessage(clInput, clInput.question)
    /\ clpc' = "done"
    /\ UNCHANGED clInput
    /\ UNCHANGED <<coalesceVars, serverVars, formatVars>>

ClarifyNext == ClarifyFormat

SpecClarify ==
    ClarifyInit /\ [][ClarifyNext]_vars

\* The text occurs in the line.
Occurs(text, line) ==
    \E k \in 0..(Len(line) - Len(text)) : SubSeq(line, k + 1, k + Len(text)) = text

\* C10: the message of formatClarifyMessage starts with descriptor.message
\* as a heading and, when a non-empty question is given, holds that question,
\* with candidates and without.
C10_EchoesMessageAndQuestion ==
    clpc = "done" =>
        /\ Truthy(clInput.message)
              => clOutput[1] = <<"**">> \o TextOf(clInput.message) \o <<"**">>
        /\ Truthy(clInput.question)
              => \E n \in 1..Len(clOutput) : Occurs(TextOf(clInput.question), clOutput[n])

----------------------------------------------------------------------------
(* formatFullTimetable *)

dayOrder ==
    << <<"M", "o", "n">>, <<"T", "u", "e">>, <<"W", "e", "d">>, <<"T", "h", "u">>,
       <<"F", "r", "i">>, <<"S", "a", "t">>, <<"S", "u", "n">> >>

dayNames ==
    << <<"Monday">>, <<"Tuesday">>, <<"Wednesday">>, <<"Thursday">>,
       <<"Friday">>, <<"Saturday">>, <<"Sunday">> >>

Unknown == <<"U", "n", "k", "n", "o", "w", "n">>

\* order.indexOf(key), counted from 0; -1 when the key is not in the array.
\* A key that is not a string equals none of the day codes.
IndexOf(order, key) ==
    IF key.t = "str" /\ \E i \in 1..Len(order) : order[i] = key.v
    THEN (CHOOSE i \in 1..Len(order) : order[i] = key.v) - 1
    ELSE 0 - 1

orderIndex(order, key) ==
    LET idx == IndexOf(order, key) IN
    IF idx = 0 - 1 THEN Len(order) + 1 ELSE idx

\* A property name that is an array index: a numeral without a leading zero.
IsArrayIndex(name) ==
    /\ name # <<>>
    /\ AllDigits(name)
    /\ (Len(name) > 1 => name[1] # "0")

\* A sequence of numerals by ascending value.
RECURSIVE AscendingNumerals(_)
AscendingNumerals(names) ==
    IF names = <<>> THEN <<>>
    ELSE
        LET least == CHOOSE i \in 1..Len(names) :
                        \A j \in 1..Len(names) :
                            DecimalValue(names[i]) <= DecimalValue(names[j])
            notLeast(x) == x # names[least]
        IN  <<names[least]>> \o AscendingNumerals(SelectSeq(names, notLeast))

\* Object.keys of an object whose properties were created in the given order:
\* the array indices by ascending value, then the other names as created.
ObjectKeys(created) ==
    LET names == Distinct(created)
        isIndex(x) == IsArrayIndex(x)
        notIndex(x) == ~IsArrayIndex(x)
    IN  AscendingNumerals(SelectSeq(names, isIndex)) \o SelectSeq(names, notIndex)

\* row.Period ?? ""
OrEmpty(value) == IF value.t = "null" THEN Str(<<>>) ELSE value

\* The groups in the order of sort((a, b) => orderIndex(a) - orderIndex(b)).
sortByDay(groups) ==
    LET n    == Len(groups)
        c    == [i \in 1..n |-> [j \in 1..n |->
                    orderIndex(dayOrder, groups[i].Weekday)
                        - orderIndex(dayOrder, groups[j].Weekday)]]
        perm == ArraySort(c, n)
    IN  [k \in 1..n |-> groups[perm[k]]]

\* Names every object inherits from Object.prototype (some of them): grouped is
\* an object literal, so grouped[day] is the inherited function for these days
\* before any row was stored under them.
Constructor == <<"c", "o", "n", "s", "t", "r", "u", "c", "t", "o", "r">>

ValueOf == <<"v", "a", "l", "u", "e", "O", "f">>

InheritedNames == {Constructor, ValueOf}

\* row.Weekday || "Unknown"
dayOfRow(row) == IF Truthy(row.Weekday) THEN TextOf(row.Weekday) ELSE Unknown

\* if (!grouped[day]) grouped[day] = []; grouped[day].push(...) raises a
\* TypeError when grouped[day] is an inherited function: it is truthy, so no
\* array is stored, and it has no push.
buildGroupedThrows(rows) ==
    /\ rows.array
    /\ \E i \in 1..Len(rows.items) :
          rows.items[i].obj /\ dayOfRow(rows.items[i]) \in InheritedNames

buildGroupedFromRows(rows) ==
    IF ~rows.array \/ rows.items = <<>> THEN <<>>
    ELSE
        LET isObject(row) == row.obj
            objects == SelectSeq(rows.items, isObject)
            dayOf(row) == dayOfRow(row)
            slotOf(row) ==
                [obj |-> TRUE,
                 Period |-> OrEmpty(row.Period), Start |-> OrEmpty(row.Start),
                 End |-> OrEmpty(row.End), Subject |-> OrEmpty(row.Subject),
                 Class |-> OrEmpty(row.Class), Room |-> OrEmpty(row.Room)]
            keys == ObjectKeys([i \in 1..Len(objects) |-> dayOf(objects[i])])
            slotsOf(day) ==
                LET onDay(row) == dayOf(row) = day
                    picked == SelectSeq(objects, onDay)
                IN  [i \in 1..Len(picked) |-> slotOf(picked[i])]
        IN  sortByDay([k \in 1..Len(keys) |->
                          [Weekday |-> Str(keys[k]), slots |-> Array(slotsOf(keys[k]))]])

\* coerceText on the cells of a merged slot, which are always strings.
coerceText(value) ==
    IF Trim(value) # <<>> THEN Trim(value) ELSE EmDash

\* The heading and the table of one day; nothing when the day has no slots.
daySection(day) ==
    LET merged_ == coalesceSlots(IF day.slots.array THEN day.slots.items ELSE <<>>)
        i       == IndexOf(dayOrder, day.Weekday)
        fullDay == IF i # 0 - 1 THEN dayNames[i + 1] ELSE TextOf(day.Weekday)
    IN  IF merged_ = <<>> THEN <<>>
        ELSE << <<"\n### ">> \o fullDay,
                <<"| Period | Start | End | Subject | Class | Room |">>,
                <<"| --- | --- | --- | --- | --- | --- |">> >>
             \o [k \in 1..Len(merged_) |->
                    <<"| ">> \o coerceText(merged_[k].Period)
                      \o <<" | ">> \o coerceText(merged_[k].Start)
                      \o <<" | ">> \o coerceText(merged_[k].End)
                      \o <<" | ">> \o coerceText(merged_[k].Subject)
                      \o <<" | ">> \o coerceText(merged_[k].Class)
                      \o <<" | ">> \o coerceText(merged_[k].Room) \o <<" |">>]

RECURSIVE daySections(_)
daySections(days) ==
    IF days = <<>> THEN <<>>
    ELSE daySections(SubSeq(days, 1, Len(days) - 1)) \o daySection(days[Len(days)])

\* teacherName with the operands of || exchanged: teachers[0] before
\* timetable.teacher.
teacherNameTeachersFirst(input) ==
    IF input.teachers.array /\ input.teachers.items # <<>>
            /\ Truthy(input.teachers.items[1])
    THEN TextOf(input.teachers.items[1])
    ELSE IF Truthy(input.teacher) THEN TextOf(input.teacher)
         ELSE <<"Teacher">>

\* timetable.teacher || (Array.isArray(teachers) && teachers[0]) || "Teacher"
teacherName(input) ==
    IF Truthy(input.teacher) THEN TextOf(input.teacher)
    ELSE IF input.teachers.array /\ input.teachers.items # <<>>
            /\ Truthy(input.teachers.items[1])
         THEN TextOf(input.teachers.items[1])
         ELSE <<"Teacher">>

\* The day groups formatFullTimetable renders: timetable.grouped when it is a
\* non-empty array, the groups built from timetable.rows otherwise.
resolveGrouped(input) ==
    IF input.grouped.array /\ input.grouped.items # <<>>
    THEN input.grouped.items
    ELSE buildGroupedFromRows(input.rows)

\* The call of buildGroupedFromRows raises.
resolveThrows(input) ==
    /\ ~(input.grouped.array /\ input.grouped.items # <<>>)
    /\ buildGroupedThrows(input.rows)

\* String.prototype.trim on the joined lines: the first line starts with "##",
\* so only blanks that end the last line go.
trimLines(lines) == [lines EXCEPT ![Len(lines)] = TrimRight(@)]

\* sections.join("\n").trim() for the given groups, as the lines of the text.
renderSections(input, groups) ==
    trimLines(
    << <<"## ">> \o (IF Truthy(input.title) THEN TextOf(input.title)
                     ELSE teacherName(input) \o <<" timetable">>) >>
      \o (IF Truthy(input.notes) THEN << <<"_">> \o TextOf(input.notes) \o <<"_">> >>
          ELSE <<>>)
      \o daySections(sortByDay(groups)))

Mon == <<"M", "o", "n">>

Wed == <<"W", "e", "d">>

XYZ == <<"X", "Y", "Z">>

\* The Weekday of a group of timetable.grouped, and of a row of timetable.rows
\* (a row may have none).
GroupWeekdays == {Str(Mon), Str(Wed), Str(XYZ), Str(<<"7">>)}

RowWeekdays == GroupWeekdays \cup {Null}

Lesson1 == RawSlot(Str(<<"1">>), Str(T0900), Str(T0950), Str(Math), Str(Room101))

Lesson2 == RawSlot(Str(<<"2">>), Str(T0950), Str(T1040), Str(Math), Str(Room101))

\* A row of timetable.rows: a slot with its Weekday.
DayRow(weekday, slot) ==
    [obj |-> slot.obj, Weekday |-> weekday, Period |-> slot.Period,
     Start |-> slot.Start, End |-> slot.End, Subject |-> slot.Subject,
     Class |-> slot.Class, Room |-> slot.Room]

RowPool ==
    { DayRow(w, Lesson1) : w \in RowWeekdays \cup {Str(Constructor)} }
        \cup {DayRow(Str(Mon), Lesson2), DayRow(Null, NonObject)}

GroupPool ==
    [Weekday : GroupWeekdays,
     slots   : {NotArray, Array(<<>>), Array(<<Lesson1>>)}]

Lee == <<"L", "e", "e">>

Tan == <<"T", "a", "n">>

\* teacher, teachers, title and notes of the request.
Headings ==
    { [teacher |-> Str(Lee), teachers |-> Array(<<Str(Tan)>>), title |-> Null,
       notes |-> Null],
      [teacher |-> Null, teachers |-> Array(<<Str(Tan)>>), title |-> Null,
       notes |-> Str(<<"n", "b", " ">>)],
      [teacher |-> Str(<<>>), teachers |-> Array(<<>>), title |-> Str(<<"T", " ">>),
       notes |-> Null],
      [teacher |-> Null, teachers |-> NotArray, title |-> Null, notes |-> Null] }

\* The argument of formatFullTimetable: rows, with grouped missing or empty,
\* or a non-empty grouped; and the call without a timetable.
TimetableData ==
    { [grouped |-> g, rows |-> Array(r)] :
          g \in {NotArray, Array(<<>>)},
          r \in UNION { [1..n -> RowPool] : n \in 0..MaxDays } }
    \cup { [grouped |-> Array(g), rows |-> NotArray] :
              g \in UNION { [1..n -> GroupPool] : n \in 1..MaxDays } }
    \cup { [grouped |-> NotArray, rows |-> NotArray] }

FormatInputs ==
    { [timetable |-> TRUE, teacher |-> h.teacher, teachers |-> h.teachers,
       title |-> h.title, notes |-> h.notes, grouped |-> d.grouped, rows |-> d.rows] :
          h \in Headings, d \in TimetableData }
    \cup { [timetable |-> FALSE, teacher |-> Null, teachers |-> NotArray,
            title |-> Null, notes |-> Null, grouped |-> NotArray, rows |-> NotArray] }

FormatInit ==
    /\ ftInput \in FormatInputs
    /\ ftGrouped = <<>>
    /\ ftOutput = <<>>
    /\ ftpc = "start"
    /\ slots = <<>>
    /\ normalized = <<>>
    /\ merged = <<>>
    /\ scanIdx = 0
    /\ result = <<>>
    /\ cpc = "idle"
    /\ variant = "none"
    /\ configured = FALSE
    /\ reqs = <<>>
    /\ disk = {}
    /\ provider = "none"
    /\ sums = <<>>
    /\ clInput = <<>>
    /\ clOutput = <<>>
    /\ clpc = "idle"

\* if (!timetable || typeof timetable !== "object") return "No timetable data provided.";
FormatNoTimetable ==
    /\ ftpc = "start"
    /\ ~ftInput.timetable
    /\ ftOutput' = << <<"No timetable data provided.">> >>
    /\ ftpc' = "done"
    /\ UNCHANGED <<ftInput, ftGrouped>>
    /\ UNCHANGED <<coalesceVars, serverVars, clarifyVars>>

\* const grouped = ... ? timetable.grouped : buildGroupedFromRows(timetable.rows, dayOrder)
FormatResolve ==
    /\ ftpc = "start"
    /\ ftInput.timetable
    /\ ~resolveThrows(ftInput)
    /\ ftGrouped' = resolveGrouped(ftInput)
    /\ ftpc' = "grouped"
    /\ UNCHANGED <<ftInput, ftOutput>>
    /\ UNCHANGED <<coalesceVars, serverVars, clarifyVars>>

\* buildGroupedFromRows raises a TypeError, and so does formatFullTimetable.
FormatThrow ==
    /\ ftpc = "start"
    /\ ftInput.timetable
    /\ resolveThrows(ftInput)
    /\ ftpc' = "threw"
    /\ UNCHANGED <<ftInput, ftGrouped, ftOutput>>
    /\ UNCHANGED <<coalesceVars, serverVars, clarifyVars>>

\* if (!grouped || !grouped.length) return `No timetable entries found for ${teacherName}.`;
FormatNoEntries ==
    /\ ftpc = "grouped"
    /\ ftGrouped = <<>>
    /\ ftOutput' = << <<"No timetable entries found for ">> \o teacherName(ftInput) \o <<".">> >>
    /\ ftpc' = "done"
    /\ UNCHANGED <<ftInput, ftGrouped>>
    /\ UNCHANGED <<coalesceVars, serverVars, clarifyVars>>

\* The heading, the notes and the days' sections, joined and trimmed.
FormatRender ==
    /\ ftpc = "grouped"
    /\ ftGrouped # <<>>
    /\ ftOutput' = renderSections(ftInput, ftGrouped)
    /\ ftpc' = "done"
    /\ UNCHANGED <<ftInput, ftGrouped>>
    /\ UNCHANGED <<coalesceVars, serverVars, clarifyVars>>

FormatNext ==
    \/ FormatNoTimetable
    \/ FormatResolve
    \/ FormatThrow
    \/ FormatNoEntries
    \/ FormatRender

SpecFormat ==
    FormatInit /\ [][FormatNext]_vars

\* The days of the headings of the rendered text, top to bottom.
RenderedDays ==
    LET isHeading(line) == line # <<>> /\ line[1] = "\n### "
        headings == SelectSeq(ftOutput, isHeading)
    IN  [k \in 1..Len(headings) |-> Tail(headings[k])]

\* The name a weekday code is rendered under.
RenderedName(code) ==
    IF \E i \in 1..7 : dayOrder[i] = code
    THEN dayNames[CHOOSE i \in 1..7 : dayOrder[i] = code]
    ELSE code

\* The rank of a rendered day: 1..7 for Monday..Sunday, 8 for any other.
RankOfDay(name) ==
    IF \E i \in 1..7 : dayNames[i] = name
    THEN CHOOSE i \in 1..7 : dayNames[i] = name
    ELSE 8

FromGrouped == ftInput.grouped.array /\ ftInput.grouped.items # <<>>

\* The days of the input in received order: one per group of
\* timetable.grouped, or one per row object of timetable.rows.
ReceivedDays ==
    IF FromGrouped
    THEN [k \in 1..Len(ftInput.grouped.items) |->
             RenderedName(ftInput.grouped.items[k].Weekday.v)]
    ELSE LET isObject(row) == row.obj
             objects == SelectSeq(ftInput.rows.items, isObject)
         IN  [k \in 1..Len(objects) |->
                 IF Truthy(objects[k].Weekday)
                 THEN RenderedName(objects[k].Weekday.v) ELSE Unknown]

FirstReceived(day) == CHOOSE i \in 1..Len(ReceivedDays) :
    ReceivedDays[i] = day /\ \A j \in 1..(i - 1) : ReceivedDays[j] # day

\* Day x comes before day y in the input: some group of x precedes some group
\* of y in timetable.grouped; the first row of x precedes the first row of y
\* in timetable.rows.
DayReceivedBefore(x, y) ==
    IF FromGrouped
    THEN \E i, j \in 1..Len(ReceivedDays) :
            i < j /\ ReceivedDays[i] = x /\ ReceivedDays[j] = y
    ELSE FirstReceived(x) < FirstReceived(y)

\* C9: the day sections are rendered Monday to Sunday, every day with an
\* unrecognized code after them, and days of equal rank in the order they were
\* received, from timetable.grouped and from timetable.rows alike.
C9_DaysInWeekOrder ==
    (ftpc = "done" /\ ftGrouped # <<>>) =>
        \A a, b \in 1..Len(RenderedDays) :
            a < b =>
                /\ RankOfDay(RenderedDays[a]) <= RankOfDay(RenderedDays[b])
                /\ (/\ RankOfDay(RenderedDays[a]) = RankOfDay(RenderedDays[b])
                    /\ RenderedDays[a] # RenderedDays[b])
                       => DayReceivedBefore(RenderedDays[a], RenderedDays[b])

\* C9 for the groups of timetable.grouped alone.
C9_GroupedDaysInWeekOrder == FromGrouped => C9_DaysInWeekOrder

\* timetable.grouped is unusable (missing or empty) and timetable.rows yields
\* no group: it is missing, empty, or holds no row object.
NoGroups ==
    /\ ftInput.timetable
    /\ ~FromGrouped
    /\ \A i \in 1..Len(ftInput.rows.items) : ~ftInput.rows.items[i].obj

\* The teacher the message names: timetable.teacher if set, else the first
\* entry of teachers, else "Teacher".
NamedTeacher ==
    IF ftInput.teacher.t # "null" /\ ftInput.teacher.v # <<>> THEN ftInput.teacher.v
    ELSE IF ftInput.teachers.array /\ Len(ftInput.teachers.items) > 0
            /\ ftInput.teachers.items[1].t # "null"
            /\ ftInput.teachers.items[1].v # <<>>
         THEN ftInput.teachers.items[1].v
         ELSE <<"Teacher">>

\* C12: without usable grouped data and with rows that yield no groups,
\* formatFullTimetable returns the one line "No timetable entries found for
\* <teacher>." and nothing else, <teacher> being timetable.teacher if set,
\* else the first entry of teachers, else "Teacher".
C12_NoEntriesMessage ==
    (ftpc = "done" /\ NoGroups) =>
        ftOutput = << <<"No timetable entries found for ">> \o NamedTeacher \o <<".">> >>

\* Empty rows, no timetable.teacher, notes given: the message names the first
\* of teachers and holds nothing else.
C12_Witness ==
    /\ ftpc = "done"
    /\ NoGroups
    /\ ftInput.rows = Array(<<>>)
    /\ ftInput.teacher = Null
    /\ ftInput.teachers = Array(<<Str(Tan)>>)
    /\ ftInput.notes # Null
    /\ ftOutput = << <<"No timetable entries found for ">> \o Tan \o <<".">> >>

----------------------------------------------------------------------------
(* formatFullTimetable on one day with malformed rows *)

\* A row object whose fields are all null or missing.
EmptyRow ==
    [obj |-> TRUE, Period |-> Null, Start |-> Null, End |-> Null,
     Subject |-> Null, Class |-> Null, Room |-> Null]

\* The rows of a day: well-formed lessons, rows that are not objects, and
\* objects whose fields are null, missing or unparsable.
DayRowPool ==
    { Lesson1, Lesson2,
      RawSlot(Str(<<"2">>), Str(T0950), Str(T1040), Str(Math), Str(Room102)),
      NonObject,
      EmptyRow,
      RawSlot(Str(<<"A">>), Str(<<"9", ":", "5">>), Null, Str(Math), Str(Room101)),
      RawSlot(Null, Str(T0900), Null, Str(Math), Str(Room101)) }

DayLists == UNION { [1..n -> DayRowPool] : n \in 0..MaxSlots }

\* The day as the one group of timetable.grouped, or as the rows of
\* timetable.rows, all of one Weekday.
DayData ==
    { [grouped |-> Array(<< [Weekday |-> w, slots |-> Array(list)] >>), rows |-> NotArray] :
          w \in {Str(Mon), Str(XYZ)}, list \in DayLists }
    \cup { [grouped |-> NotArray,
            rows |-> Array([i \in 1..Len(list) |-> DayRow(w, list[i])])] :
              w \in {Str(Mon), Null, Str(Constructor)}, list \in DayLists }

DayInputs ==
    { [timetable |-> TRUE, teacher |-> Str(Lee), teachers |-> NotArray,
       title |-> Null, notes |-> Null, grouped |-> d.grouped, rows |-> d.rows] :
          d \in DayData }
    \cup { [timetable |-> FALSE, teacher |-> Null, teachers |-> NotArray,
            title |-> Null, notes |-> Null, grouped |-> NotArray, rows |-> NotArray] }

DayInit ==
    /\ ftInput \in DayInputs
    /\ ftGrouped = <<>>
    /\ ftOutput = <<>>
    /\ ftpc = "start"
    /\ slots = <<>>
    /\ normalized = <<>>
    /\ merged = <<>>
    /\ scanIdx = 0
    /\ result = <<>>
    /\ cpc = "idle"
    /\ variant = "none"
    /\ configured = FALSE
    /\ reqs = <<>>
    /\ disk = {}
    /\ provider = "none"
    /\ sums = <<>>
    /\ clInput = <<>>
    /\ clOutput = <<>>
    /\ clpc = "idle"

SpecDay ==
    DayInit /\ [][FormatNext]_vars

\* The rows of the day as they were received.
DayRows ==
    IF FromGrouped THEN ftInput.grouped.items[1].slots.items ELSE ftInput.rows.items

ObjectRows == { i \in 1..Len(DayRows) : DayRows[i].obj }

\* The table rows of the rendered text, and the cells of a table row.
TableLines ==
    LET isRow(line) == line # <<>> /\ line[1] = "| "
    IN  SelectSeq(ftOutput, isRow)

RECURSIVE SplitCells(_)
SplitCells(body) ==
    IF \E k \in 1..Len(body) : body[k] = " | "
    THEN LET k == CHOOSE k \in 1..Len(body) :
                     body[k] = " | " /\ \A j \in 1..(k - 1) : body[j] # " | "
         IN  <<SubSeq(body, 1, k - 1)>> \o SplitCells(SubSeq(body, k + 1, Len(body)))
    ELSE <<body>>

Cells(line) == SplitCells(SubSeq(line, 2, Len(line) - 1))

\* What a field of a row is displayed as: its trimmed text, a dash when that
\* is empty.
DisplayOf(value) == IF toTrimmed(value) = <<>> THEN EmDash ELSE toTrimmed(value)

\* Some table row shows the subject, class and room of the row (up to letter
\* case, which merging does not tell apart).
Shown(row) ==
    \E k \in 1..Len(TableLines) :
        LET c == Cells(TableLines[k]) IN
        /\ Len(c) = 6
        /\ ToLowerCase(c[4]) = ToLowerCase(DisplayOf(row.Subject))
        /\ ToLowerCase(c[5]) = ToLowerCase(DisplayOf(row.Class))
        /\ ToLowerCase(c[6]) = ToLowerCase(DisplayOf(row.Room))

\* The rendering of the day keeps the object rows and only them: every object
\* row is shown in a table row, there are no more table rows than object rows,
\* and no cell is left empty.
DayRendered ==
    /\ \A i \in ObjectRows : Shown(DayRows[i])
    /\ Len(TableLines) <= Cardinality(ObjectRows)
    /\ \A k \in 1..Len(TableLines) :
          /\ Len(Cells(TableLines[k])) = 6
          /\ \A n \in 1..6 : Cells(TableLines[k])[n] # <<>>

\* C11: a day whose slot list mixes well-formed rows with rows that are not
\* objects or whose fields are null, missing or unparsable never makes
\* formatFullTimetable raise; the rows that are not objects are dropped, and
\* every other row is rendered, with a dash for its empty cells.
C11_MalformedRowsTolerated ==
    /\ ftpc # "threw"
    /\ (ftpc = "done" /\ ftInput.timetable) => DayRendered

\* C11 for the days whose rows name no inherited property as their Weekday.
C11_RenderedUnlessThrown ==
    (ftpc = "done" /\ ftInput.timetable) => DayRendered

----------------------------------------------------------------------------
(* POST /summarize *)

\* The variant whose /summarize handler renders clarifications and full
\* timetables itself; the others hand every request to the completion provider.
DispatchingVariants == {"part_000"}

\* const groq = GROQ_API_KEY ? new Groq(...) : null, and the same for openai;
\* openai is asked first.  The other variants always construct their client.
Providers(v) == IF v \in DispatchingVariants THEN {"openai", "groq", "none"} ELSE {"groq"}

UpperChar(c) ==
    IF \E i \in 1..Len(LowerChars) : LowerChars[i] = c
    THEN UpperChars[CHOOSE i \in 1..Len(LowerChars) : LowerChars[i] = c]
    ELSE c

ToUpperCase(s) == [i \in 1..Len(s) |-> UpperChar(s[i])]

FullTimetable == <<"F", "U", "L", "L", "_", "T", "I", "M", "E", "T", "A", "B", "L", "E">>

\* clarify of the request body: missing, or an object with required and type.
NoClarify == [present |-> FALSE, required |-> FALSE, type |-> ""]

ClarifyValues ==
    { NoClarify,
      [present |-> TRUE, required |-> TRUE, type |-> "AMBIGUOUS_TEACHER"],
      [present |-> TRUE, required |-> FALSE, type |-> "AMBIGUOUS_TEACHER"],
      [present |-> TRUE, required |-> TRUE, type |-> "NOT_FOUND"] }

QueryTypes == {Null, Str(FullTimetable), Str(ToLowerCase(FullTimetable))}

\* timetable (with teachers, title and notes) of the request body: missing,
\* a lesson on Monday, a lesson on a day named "constructor".
TimetableOf(rows) ==
    [timetable |-> TRUE, teacher |-> Str(Lee), teachers |-> NotArray,
     title |-> Null, notes |-> Null, grouped |-> NotArray, rows |-> Array(rows)]

MissingTimetable ==
    [timetable |-> FALSE, teacher |-> Null, teachers |-> NotArray,
     title |-> Null, notes |-> Null, grouped |-> NotArray, rows |-> NotArray]

SummarizeTimetables ==
    { MissingTimetable,
      TimetableOf(<<DayRow(Str(Mon), Lesson1)>>),
      TimetableOf(<<DayRow(Str(Constructor), Lesson1)>>) }

SumRequests == 1..MaxSum

NoSummarize ==
    [pc |-> "none", clarify |-> NoClarify, queryType |-> Null,
     timetable |-> MissingTimetable, branch |-> "", calls |-> 0,
     responses |-> 0, status |-> 0]

SummarizeInit ==
    /\ variant \in Variants
    /\ provider \in Providers(variant)
    /\ sums = [i \in SumRequests |-> NoSummarize]
    /\ configured = FALSE
    /\ reqs = <<>>
    /\ disk = {}
    /\ slots = <<>>
    /\ normalized = <<>>
    /\ merged = <<>>
    /\ scanIdx = 0
    /\ result = <<>>
    /\ cpc = "idle"
    /\ ftInput = <<>>
    /\ ftGrouped = <<>>
    /\ ftOutput = <<>>
    /\ ftpc = "idle"
    /\ clInput = <<>>
    /\ clOutput = <<>>
    /\ clpc = "idle"

\* A POST /summarize arrives with its body.
SummarizeArrive(i) ==
    /\ sums[i].pc = "none"
    /\ \E c \in ClarifyValues, q \in QueryTypes, t \in SummarizeTimetables :
          sums' = [sums EXCEPT ![i] = [NoSummarize EXCEPT
                      !.pc = "handler", !.clarify = c, !.queryType = q,
                      !.timetable = t]]
    /\ UNCHANGED <<variant, configured, reqs, disk, provider>>
    /\ UNCHANGED <<coalesceVars, formatVars, clarifyVars>>

\* clarify && clarify.required && clarify.type === "AMBIGUOUS_TEACHER"
wantsClarify(c) == c.present /\ c.required /\ c.type = "AMBIGUOUS_TEACHER"

\* String(queryType || "").toUpperCase() === "FULL_TIMETABLE" && timetable
wantsFullTimetable(q, t) ==
    /\ ToUpperCase(IF Truthy(q) THEN TextOf(q) ELSE <<>>) = FullTimetable
    /\ t.timetable

\* The branch the handler takes.
summarizeBranch(v, c, q, t) ==
    IF v \notin DispatchingVariants THEN "provider"
    ELSE IF wantsClarify(c) THEN "clarify"
    ELSE IF wantsFullTimetable(q, t) THEN "formatter"
    ELSE "provider"

\* The handler up to its response or to the await of the completion: the
\* clarification and the timetable are answered at once (with 500 when
\* formatFullTimetable raises), and so is the request that finds no provider
\* set up; otherwise the provider is called.
SummarizeHandle(i) ==
    /\ sums[i].pc = "handler"
    /\ LET r      == sums[i]
           branch == summarizeBranch(variant, r.clarify, r.queryType, r.timetable)
       IN  sums' = [sums EXCEPT ![i] =
              CASE branch = "clarify" ->
                     [r EXCEPT !.pc = "done", !.branch = branch, !.status = 200,
                               !.responses = @ + 1]
                [] branch = "formatter" ->
                     [r EXCEPT !.pc = "done", !.branch = branch,
                               !.status = IF resolveThrows(r.timetable) THEN 500 ELSE 200,
                               !.responses = @ + 1]
                [] branch = "provider" /\ provider = "none" ->
                     [r EXCEPT !.pc = "done", !.branch = branch, !.status = 500,
                               !.responses = @ + 1]
                [] OTHER ->
                     [r EXCEPT !.pc = "awaiting", !.branch = branch,
                               !.calls = @ + 1]]
    /\ UNCHANGED <<variant, configured, reqs, disk, provider>>
    /\ UNCHANGED <<coalesceVars, formatVars, clarifyVars>>

\* The completion settles: res.json with the text, or the catch block's 500.
SummarizeSettle(i) ==
    /\ sums[i].pc = "awaiting"
    /\ \E ok \in BOOLEAN :
          sums' = [sums EXCEPT ![i] = [@ EXCEPT
                      !.pc = "done",
                      !.status = IF ok THEN 200 ELSE 500,
                      !.responses = @ + 1]]
    /\ UNCHANGED <<variant, configured, reqs, disk, provider>>
    /\ UNCHANGED <<coalesceVars, formatVars, clarifyVars>>

SummarizeNext ==
    \E i \in SumRequests :
        \/ SummarizeArrive(i)
        \/ SummarizeHandle(i)
        \/ SummarizeSettle(i)

SpecSummarize ==
    SummarizeInit /\ [][SummarizeNext]_vars

\* The branch a request is to take: the clarification first, the formatter
\* second, the completion provider otherwise.
BranchDue(r) ==
    IF r.clarify.present /\ r.clarify.required /\ r.clarify.type = "AMBIGUOUS_TEACHER"
    THEN "clarify"
    ELSE IF /\ r.queryType.t = "str"
            /\ ToUpperCase(r.queryType.v) = FullTimetable
            /\ r.timetable.timetable
         THEN "formatter"
         ELSE "provider"

Dispatched(r) ==
    r.pc \in {"awaiting", "done"} =>
        /\ r.branch = BranchDue(r)
        /\ r.branch \in {"clarify", "formatter"} => r.calls = 0
        /\ r.calls <= 1
        /\ r.responses = (IF r.pc = "done" THEN 1 ELSE 0)

\* C13: every /summarize request takes exactly one branch, the clarification
\* before the formatter before the completion provider; the provider is not
\* called on the first two branches and at most once on the third, and the
\* request is answered exactly once.
C13_OneBranchOneResponse ==
    \A i \in SumRequests : Dispatched(sums[i])

\* C13 for the variant that has the three branches.
C13_InDispatchingVariant ==
    variant \in DispatchingVariants => C13_OneBranchOneResponse

----------------------------------------------------------------------------
(* Conservation of the rows in coalesceSlots *)

\* The received rows that pass normalization: the row objects.
Passed == { i \in 1..Len(slots) : slots[i].obj }

\* The constituents of the accumulators: one per period label, by accumulator
\* and place.
ConstituentPlaces ==
    { kj \in (1..Len(merged)) \X (1..Len(slots)) :
          kj[2] <= Len(merged[kj[1]].periodsRaw) }

\* The grouping keys of a normalized row or of an accumulator.
KeysOf(x) == <<x._subjectKey, x._classKey, x._roomKey>>

\* The constituents with the given period label in accumulators of the given
\* group, and the normalized rows with that label and group.
ConstituentsLike(label, keys) ==
    { kj \in ConstituentPlaces :
          merged[kj[1]].periodsRaw[kj[2]] = label /\ KeysOf(merged[kj[1]]) = keys }

NormalizedLike(label, keys) ==
    { j \in 1..Len(normalized) :
          normalized[j].Period = label /\ KeysOf(normalized[j]) = keys }

\* C14: after the scan every row that passed normalization is a constituent
\* of exactly one accumulator: the normalized rows are as many as the row
\* objects received, the constituents are as many as the normalized rows,
\* label by label and group by group; there are no more merged slots than
\* normalized rows, and none only when no row passed.
C14_RowsConserved ==
    cpc = "done" =>
        /\ Len(normalized) = Cardinality(Passed)
        /\ Cardinality(ConstituentPlaces) = Len(normalized)
        /\ \A j \in 1..Len(normalized) :
              Cardinality(ConstituentsLike(normalized[j].Period, KeysOf(normalized[j])))
                  = Cardinality(NormalizedLike(normalized[j].Period, KeysOf(normalized[j])))
        /\ Len(result) <= Len(normalized)
        /\ (Len(result) = 0 <=> Passed = {})

\* C14's case: of three rows one is dropped and the two others are merged
\* into one slot with two constituents.
C14_Witness ==
    /\ cpc = "done"
    /\ Len(slots) = 3
    /\ Cardinality(Passed) = 2
    /\ Len(result) = 1
    /\ Len(merged[1].periodsRaw) = 2

====
